---- MODULE Spec2Model ----
(***************************************************************************)
(* Liontech School Management System: the HTTP handlers of app/routes.py   *)
(* over the tables of app/models.py.                                       *)
(*                                                                         *)
(* A handler is a function from the current state and its request to an    *)
(* outcome (tables, session, response); it runs to completion (parse,       *)
(* validate, session.add or attribute writes, commit, or rollback on the   *)
(* except path), so the action of a route is the whole request.            *)
(*                                                                         *)
(* Encoding of values                                                      *)
(*   - a JSON object is a record of optional members: <<>> is "key not in  *)
(*     the object", <<v>> is "key present with value v";                   *)
(*   - Python None / SQL NULL is None for strings, NoneId for integers and *)
(*     NullCode for the code columns;                                      *)
(*   - a code (student_id, teacher_id column) is a sequence of tokens: the *)
(*     literal "S1" is <<"S1">>, the f-string f"STU-{ts}" is <<"STU-", ts>>*)
(*     so that two formatted codes are equal exactly when prefix and       *)
(*     timestamp are.                                                      *)
(* request.get_json() is taken to return a JSON object.                    *)
(***************************************************************************)
EXTENDS Integers, Sequences, FiniteSets, TLC

VARIABLES
    students,   \* committed rows of table students
    teachers,   \* committed rows of table teachers
    classes,    \* committed rows of table classes
    pending,    \* db.session: changes added or written but not yet committed
    clock,      \* the reading datetime.now().timestamp() returns
    issued,     \* history: ids returned by successful creates, per table
    last        \* the last exchange: handler, path and query parameters, status, JSON body

vars == <<students, teachers, classes, pending, clock, issued, last>>

----------------------------------------------------------------------------
(* Bounds of the model *)

MaxId == 2          \* ids handed out per table
MaxClock == 2       \* clock readings 1..MaxClock
MaxRows == 2        \* rows in the whole store
MaxStudents == 1    \* students stored at a time under SpecStudents
MaxPage == 2        \* page query parameter 0..MaxPage
MaxPerPage == 2     \* per_page query parameter 1..MaxPerPage

(* Program constants *)

DefaultMaxCapacity == 40
OK == 200
Created == 201
BadRequest == 400
NotFound == 404
ServerError == 500
NoneId == 0

None == "<None>"
NullCode == <<>>

Tables == {"students", "teachers", "classes"}

----------------------------------------------------------------------------
(* Request inputs *)

Emails == {"a@x", "b@x"}
ClassNames == {"1A", "1B"}
Ids == 1..MaxId

Opt(S) == {<<>>} \cup {<<v>> : v \in S}

\* POST /api/students/: every combination of a present, empty or absent
\* required field, with and without the optional student_id
StudentCreateBodies ==
    [student_id : Opt({<<"S1">>}),
     first_name : Opt({"Ann", ""}),
     last_name  : Opt({"Lee"}),
     email      : Opt(Emails),
     phone      : {<<>>},
     status     : {<<>>}]

\* POST /api/students/: complete bodies
StudentPlainBodies ==
    [student_id : Opt({<<"S1">>}),
     first_name : {<<"Ann">>},
     last_name  : {<<"Lee">>},
     email      : {<<e>> : e \in Emails},
     phone      : {<<>>},
     status     : {<<>>}]

\* POST /api/students/: complete bodies with the optional members
StudentValidBodies ==
    [student_id : Opt({<<"S1">>}),
     first_name : {<<"Ann">>},
     last_name  : {<<"Lee">>},
     email      : {<<e>> : e \in Emails},
     phone      : Opt({"555"}),
     status     : Opt({"graduated"})]

\* PUT /api/students/{id}: every subset of the five keys the handler reads
StudentUpdateBodies ==
    [first_name : Opt({"Bob"}),
     last_name  : Opt({"Lee"}),
     email      : Opt(Emails \cup {None}),
     phone      : Opt({None}),
     status     : Opt({"expelled"})]

\* PUT /api/students/{id}: bodies that change a name, the email or the status
StudentChangeBodies ==
    [first_name : Opt({"Bob"}),
     last_name  : {<<>>},
     email      : Opt(Emails),
     phone      : {<<>>},
     status     : Opt({"expelled"})]

\* PUT /api/students/{id}: bodies that touch the constrained column only
StudentEmailBodies ==
    [first_name : {<<>>},
     last_name  : {<<>>},
     email      : Opt(Emails \cup {None}),
     phone      : {<<>>},
     status     : {<<>>}]

TeacherCreateBodies ==
    [teacher_id     : Opt({<<"T1">>}),
     first_name     : Opt({"Ann"}),
     last_name      : Opt({"Lee"}),
     email          : Opt(Emails),
     phone          : {<<>>},
     specialization : {<<>>},
     status         : {<<>>}]

TeacherPlainBodies ==
    [teacher_id     : Opt({<<"T1">>}),
     first_name     : {<<"Ann">>},
     last_name      : {<<"Lee">>},
     email          : {<<e>> : e \in Emails},
     phone          : {<<>>},
     specialization : {<<>>},
     status         : Opt({"on_leave"})]

ClassCreateBodies ==
    [class_name   : Opt(ClassNames),
     grade_level  : Opt({"G1"}),
     teacher_id   : Opt(Ids),
     max_capacity : {<<>>},
     room_number  : {<<>>},
     status       : {<<>>}]

----------------------------------------------------------------------------
(* dict.get and truthiness *)

\* data.get(key) without a default: None when the key is absent
GetStr(data, key) == IF data[key] = <<>> THEN None ELSE data[key][1]
GetId(data, key) == IF data[key] = <<>> THEN NoneId ELSE data[key][1]

\* data.get(key, default)
Get(data, key, default) == IF data[key] = <<>> THEN default ELSE data[key][1]

\* `not data.get(key)`: absent, None and the empty string are falsy
Falsy(data, key) == data[key] = <<>> \/ data[key][1] \in {None, ""}

----------------------------------------------------------------------------
(* Helpers on sets of rows *)

IdsOf(rows) == {r.id : r \in rows}
Max(S) == IF S = {} THEN 0 ELSE CHOOSE m \in S : \A n \in S : n <= m
Min(S) == CHOOSE m \in S : \A n \in S : m <= n

RECURSIVE SortById(_)
SortById(rows) ==
    IF rows = {} THEN <<>>
    ELSE LET r == CHOOSE x \in rows : x.id = Min(IdsOf(rows))
         IN <<r>> \o SortById(rows \ {r})

DB == [students |-> students, teachers |-> teachers, classes |-> classes]
TotalRows == Cardinality(students) + Cardinality(teachers) + Cardinality(classes)

----------------------------------------------------------------------------
(* Schema: app/models.py *)

\* nullable=False columns
NotNullCols ==
    [students |-> {"student_id", "first_name", "last_name", "email"},
     teachers |-> {"teacher_id", "first_name", "last_name", "email"},
     classes  |-> {"class_name", "grade_level"}]

\* faulty variant of UniqueCols: email declared without unique=True
UniqueColsNoEmail ==
    [students |-> {"student_id"},
     teachers |-> {"teacher_id"},
     classes  |-> {"class_name"}]

\* unique=True columns
UniqueCols ==
    [students |-> {"student_id", "email"},
     teachers |-> {"teacher_id", "email"},
     classes  |-> {"class_name"}]

\* SQL NULL of a column
NullOf(col) == IF col \in {"student_id", "teacher_id"} THEN NullCode ELSE None

\* The store is the default SQLALCHEMY_DATABASE_URI, sqlite:///school_management.db.
\* SQLite checks foreign keys only on a connection that has run
\* PRAGMA foreign_keys = ON, which the application never does.
ForeignKeysEnforced == FALSE

\* db.ForeignKey columns: Student.class_id -> classes.id, Class.teacher_id -> teachers.id
ForeignKeyBroken(db, table, row) ==
    /\ ForeignKeysEnforced
    /\ \/ table = "students" /\ row.class_id # NoneId
                             /\ row.class_id \notin IdsOf(db.classes)
       \/ table = "classes" /\ row.teacher_id # NoneId
                            /\ row.teacher_id \notin IdsOf(db.teachers)

\* the id an INSERT receives: SQLite's INTEGER PRIMARY KEY (no AUTOINCREMENT
\* keyword) is one more than the largest id in the table
NextId(table) == Max(IdsOf(DB[table])) + 1

----------------------------------------------------------------------------
(* Session and transaction *)

Insert(table, row) == [kind |-> "insert", table |-> table, row |-> row]
Update(table, row) == [kind |-> "update", table |-> table, row |-> row]
Delete(table, row) == [kind |-> "delete", table |-> table, row |-> row]

\* the constraint a statement fails on, "" when the database accepts it
ConstraintFailed(db, op) ==
    LET rows   == db[op.table]
        others == {r \in rows : r.id # op.row.id}
    IN  CASE op.kind = "delete" /\ op.row.id \in IdsOf(rows) -> ""
          [] op.kind = "delete" -> "StaleDataError"
          [] op.kind = "update" /\ op.row.id \notin IdsOf(rows) -> "StaleDataError"
          [] op.kind = "insert" /\ op.row.id \in IdsOf(rows) ->
               "UNIQUE constraint failed"
          [] \E c \in NotNullCols[op.table] : op.row[c] = NullOf(c) ->
               "NOT NULL constraint failed"
          [] \E c \in UniqueCols[op.table] : \E r \in others : r[c] = op.row[c] ->
               "UNIQUE constraint failed"
          [] ForeignKeyBroken(db, op.table, op.row) ->
               "FOREIGN KEY constraint failed"
          [] OTHER -> ""

Apply(db, op) ==
    LET rows == db[op.table]
        kept == {r \in rows : r.id # op.row.id}
    IN  [db EXCEPT ![op.table] =
            IF op.kind = "delete" THEN kept ELSE kept \cup {op.row}]

\* flush the session's changes in order; the transaction is all-or-nothing
RECURSIVE Flush(_, _)
Flush(db, ops) ==
    IF ops = <<>> THEN [ok |-> TRUE, db |-> db, error |-> ""]
    ELSE LET failed == ConstraintFailed(db, Head(ops))
         IN  IF failed # "" THEN [ok |-> FALSE, db |-> db, error |-> failed]
             ELSE Flush(Apply(db, Head(ops)), Tail(ops))

\* db.session.commit(): fault is a failure of the storage call itself
Commit(ops, fault) ==
    IF fault THEN [ok |-> FALSE, db |-> DB, error |-> "OperationalError"]
    ELSE LET f == Flush(DB, ops)
         IN  [ok |-> f.ok, db |-> IF f.ok THEN f.db ELSE DB, error |-> f.error]

\* faulty variant of Rollback: the except clause without db.session.rollback()
RollbackKeep(ops) == ops

\* db.session.rollback(): the session forgets every uncommitted change
Rollback(ops) == <<>>

\* faulty variant of QueryGet: Model.query.first(), which ignores the id
QueryFirst(rows, id) == {r \in rows : r.id = Min(IdsOf(rows))}

\* Model.query.get(id)
QueryGet(rows, id) == {r \in rows : r.id = id}

----------------------------------------------------------------------------
(* Serialization: to_dict *)

\* datetime.isoformat() and date.isoformat()
IsoFormat(t) == <<"iso", t>>

StudentToDict(s) ==
    [id |-> s.id, student_id |-> s.student_id, first_name |-> s.first_name,
     last_name |-> s.last_name, email |-> s.email, phone |-> s.phone,
     date_of_birth |-> IF s.date_of_birth # NoneId
                       THEN IsoFormat(s.date_of_birth) ELSE <<>>,
     enrollment_date |-> IsoFormat(s.enrollment_date),
     class_id |-> s.class_id, status |-> s.status]

TeacherToDict(t) ==
    [id |-> t.id, teacher_id |-> t.teacher_id, first_name |-> t.first_name,
     last_name |-> t.last_name, email |-> t.email, phone |-> t.phone,
     specialization |-> t.specialization,
     hire_date |-> IsoFormat(t.hire_date), status |-> t.status]

ClassToDict(c, studs) ==
    [id |-> c.id, class_name |-> c.class_name, grade_level |-> c.grade_level,
     teacher_id |-> c.teacher_id, max_capacity |-> c.max_capacity,
     room_number |-> c.room_number, status |-> c.status,
     student_count |-> Cardinality({s \in studs : s.class_id = c.id})]

----------------------------------------------------------------------------
(* Outcomes of a handler *)

\* args are the path and query parameters of the request
Respond(op, args, status, body) ==
    [op |-> op, args |-> args, status |-> status, body |-> body]
Error(msg) == [error |-> msg]

\* the handler returns without committing: nothing is written
Reply(op, args, status, body) ==
    [db |-> DB, pending |-> pending, issued |-> issued,
     last |-> Respond(op, args, status, body)]

\* the commit succeeded
Done(res, ids, op, args, status, body) ==
    [db |-> res.db, pending |-> <<>>, issued |-> ids,
     last |-> Respond(op, args, status, body)]

\* the commit raised: the except clause rolls the session back and answers 500
Failed(res, ops, op, args) ==
    [db |-> res.db, pending |-> Rollback(ops), issued |-> issued,
     last |-> Respond(op, args, ServerError, Error(res.error))]

Issue(table, id) == [issued EXCEPT ![table] = @ \cup {id}]

----------------------------------------------------------------------------
(* Pagination: Query.paginate(page=page, per_page=per_page) with its default
   error_out=True, which aborts with 404 on a page below 1 and on an empty
   page other than the first *)

Ceil(n, d) == (n + d - 1) \div d

PageItems(rows, page, per_page) ==
    LET all  == SortById(rows)
        from == (page - 1) * per_page + 1
        to   == IF page * per_page < Len(all) THEN page * per_page ELSE Len(all)
    IN  SubSeq(all, from, to)

Paginate(rows, page, per_page) ==
    IF page < 1 THEN [abort |-> TRUE]
    ELSE LET items == PageItems(rows, page, per_page)
         IN  IF items = <<>> /\ page # 1 THEN [abort |-> TRUE]
             ELSE [abort |-> FALSE, items |-> items,
                   total |-> Cardinality(rows),
                   pages |-> Ceil(Cardinality(rows), per_page)]

----------------------------------------------------------------------------
(* Student routes *)

\* f"STU-{datetime.now().timestamp()}" and f"TCH-{datetime.now().timestamp()}"
StudentCode(now) == <<"STU-", now>>
TeacherCode(now) == <<"TCH-", now>>

get_all_students(page, per_page) ==
    LET p == Paginate(students, page, per_page)
    IN  IF p.abort
        THEN Reply("get_all_students", <<page, per_page>>, ServerError, Error("404 Not Found"))
        ELSE Reply("get_all_students", <<page, per_page>>, OK,
                   [students |-> [i \in 1..Len(p.items) |-> StudentToDict(p.items[i])],
                    total |-> p.total, pages |-> p.pages,
                    current_page |-> page])

get_student(student_id) ==
    LET found == QueryGet(students, student_id)
    IN  IF found = {}
        THEN Reply("get_student", <<student_id>>, NotFound, Error("Student not found"))
        ELSE Reply("get_student", <<student_id>>, OK, StudentToDict(CHOOSE s \in found : TRUE))

\* faulty variant of StudentMissing: only first_name is validated
StudentMissingFirstOnly(data) == Falsy(data, "first_name")

\* the validation of create_student: not data.get(...) on each required key
StudentMissing(data) ==
    Falsy(data, "first_name") \/ Falsy(data, "last_name") \/ Falsy(data, "email")

NewStudent(data, id) ==
    [id         |-> id,
     student_id |-> Get(data, "student_id", StudentCode(clock)),
     first_name |-> GetStr(data, "first_name"),
     last_name  |-> GetStr(data, "last_name"),
     email      |-> GetStr(data, "email"),
     phone      |-> GetStr(data, "phone"),
     date_of_birth   |-> NoneId,
     enrollment_date |-> clock,
     class_id   |-> NoneId,
     status     |-> "active",
     updated_at |-> clock]

create_student(data, fault) ==
    IF StudentMissing(data)
    THEN Reply("create_student", <<>>, BadRequest, Error("Missing required fields"))
    ELSE LET student == NewStudent(data, NextId("students"))
             ops     == Append(pending, Insert("students", student))
             res     == Commit(ops, fault)
         IN  IF res.ok
             THEN Done(res, Issue("students", student.id),
                       "create_student", <<>>, Created, StudentToDict(student))
             ELSE Failed(res, ops, "create_student", <<>>)

\* faulty variant of Overwrite: data.get(key) without the current value as
\* default
OverwriteNoDefault(student, data) ==
    [student EXCEPT
        !.first_name = GetStr(data, "first_name"),
        !.last_name  = GetStr(data, "last_name"),
        !.email      = GetStr(data, "email"),
        !.phone      = GetStr(data, "phone"),
        !.status     = GetStr(data, "status")]

\* the five assignments of update_student
Overwrite(student, data) ==
    [student EXCEPT
        !.first_name = Get(data, "first_name", student.first_name),
        !.last_name  = Get(data, "last_name", student.last_name),
        !.email      = Get(data, "email", student.email),
        !.phone      = Get(data, "phone", student.phone),
        !.status     = Get(data, "status", student.status)]

\* updated_at has onupdate=datetime.utcnow: the UPDATE statement, which is
\* emitted only for a changed row, stamps it
Touch(row) == [row EXCEPT !.updated_at = clock]

update_student(student_id, data, fault) ==
    LET found == QueryGet(students, student_id)
    IN  IF found = {}
        THEN Reply("update_student", <<student_id>>, NotFound, Error("Student not found"))
        ELSE LET old     == CHOOSE s \in found : TRUE
                 student == Overwrite(old, data)
                 ops     == IF student = old THEN pending
                            ELSE Append(pending, Update("students", Touch(student)))
                 res     == Commit(ops, fault)
             IN  IF res.ok
                 THEN Done(res, issued,
                           "update_student", <<student_id>>, OK, StudentToDict(student))
                 ELSE Failed(res, ops, "update_student", <<student_id>>)

delete_student(student_id, fault) ==
    LET found == QueryGet(students, student_id)
    IN  IF found = {}
        THEN Reply("delete_student", <<student_id>>, NotFound, Error("Student not found"))
        ELSE LET student == CHOOSE s \in found : TRUE
                 ops     == Append(pending, Delete("students", student))
                 res     == Commit(ops, fault)
             IN  IF res.ok
                 THEN Done(res, issued, "delete_student", <<student_id>>, OK,
                           [message |-> "Student deleted successfully"])
                 ELSE Failed(res, ops, "delete_student", <<student_id>>)

----------------------------------------------------------------------------
(* Teacher routes *)

get_all_teachers(page, per_page) ==
    LET p == Paginate(teachers, page, per_page)
    IN  IF p.abort
        THEN Reply("get_all_teachers", <<page, per_page>>, ServerError, Error("404 Not Found"))
        ELSE Reply("get_all_teachers", <<page, per_page>>, OK,
                   [teachers |-> [i \in 1..Len(p.items) |-> TeacherToDict(p.items[i])],
                    total |-> p.total, pages |-> p.pages,
                    current_page |-> page])

TeacherMissing(data) ==
    Falsy(data, "first_name") \/ Falsy(data, "last_name") \/ Falsy(data, "email")

NewTeacher(data, id) ==
    [id             |-> id,
     teacher_id     |-> Get(data, "teacher_id", TeacherCode(clock)),
     first_name     |-> GetStr(data, "first_name"),
     last_name      |-> GetStr(data, "last_name"),
     email          |-> GetStr(data, "email"),
     phone          |-> GetStr(data, "phone"),
     specialization |-> GetStr(data, "specialization"),
     hire_date      |-> clock,
     status         |-> "active",
     updated_at     |-> clock]

create_teacher(data, fault) ==
    IF TeacherMissing(data)
    THEN Reply("create_teacher", <<>>, BadRequest, Error("Missing required fields"))
    ELSE LET teacher == NewTeacher(data, NextId("teachers"))
             ops     == Append(pending, Insert("teachers", teacher))
             res     == Commit(ops, fault)
         IN  IF res.ok
             THEN Done(res, Issue("teachers", teacher.id),
                       "create_teacher", <<>>, Created, TeacherToDict(teacher))
             ELSE Failed(res, ops, "create_teacher", <<>>)

----------------------------------------------------------------------------
(* Class routes *)

get_all_classes ==
    LET all == SortById(classes)
    IN  Reply("get_all_classes", <<>>, OK,
              [classes |-> [i \in 1..Len(all) |-> ClassToDict(all[i], students)],
               total |-> Len(all)])

ClassMissing(data) == Falsy(data, "class_name") \/ Falsy(data, "grade_level")

NewClass(data, id) ==
    [id           |-> id,
     class_name   |-> GetStr(data, "class_name"),
     grade_level  |-> GetStr(data, "grade_level"),
     teacher_id   |-> GetId(data, "teacher_id"),
     max_capacity |-> Get(data, "max_capacity", DefaultMaxCapacity),
     room_number  |-> GetStr(data, "room_number"),
     status       |-> "active",
     updated_at   |-> clock]

create_class(data, fault) ==
    IF ClassMissing(data)
    THEN Reply("create_class", <<>>, BadRequest, Error("Missing required fields"))
    ELSE LET class_obj == NewClass(data, NextId("classes"))
             ops       == Append(pending, Insert("classes", class_obj))
             res       == Commit(ops, fault)
         IN  IF res.ok
             THEN Done(res, Issue("classes", class_obj.id), "create_class", <<>>,
                       Created, ClassToDict(class_obj, res.db.students))
             ELSE Failed(res, ops, "create_class", <<>>)

----------------------------------------------------------------------------
(* The service: one action per route *)

\* the request is served: its outcome becomes the state
Serve(out) ==
    /\ students' = out.db.students
    /\ teachers' = out.db.teachers
    /\ classes' = out.db.classes
    /\ pending' = out.pending
    /\ issued' = out.issued
    /\ last' = out.last
    /\ UNCHANGED clock

\* room for one more row within the bounds of the model
Room(table) == NextId(table) <= MaxId /\ TotalRows < MaxRows

GET_students(page, per_page) == Serve(get_all_students(page, per_page))
GET_student(id) == Serve(get_student(id))
POST_students(data, fault) == Room("students") /\ Serve(create_student(data, fault))
PUT_student(id, data, fault) == Serve(update_student(id, data, fault))
DELETE_student(id, fault) == Serve(delete_student(id, fault))
GET_teachers(page, per_page) == Serve(get_all_teachers(page, per_page))
POST_teachers(data, fault) == Room("teachers") /\ Serve(create_teacher(data, fault))
GET_classes == Serve(get_all_classes)
POST_classes(data, fault) == Room("classes") /\ Serve(create_class(data, fault))

\* time passes between two requests
tick ==
    /\ clock < MaxClock
    /\ clock' = clock + 1
    /\ UNCHANGED <<students, teachers, classes, pending, issued, last>>

\* a fresh database file after db.create_all()
Init ==
    /\ students = {}
    /\ teachers = {}
    /\ classes = {}
    /\ pending = <<>>
    /\ clock = 1
    /\ issued = [t \in Tables |-> {}]
    /\ last = Respond("none", <<>>, 0, Error(""))

Pages == 0..MaxPage
PerPages == 1..MaxPerPage

Next ==
    \/ \E page \in Pages, per_page \in PerPages : GET_students(page, per_page)
    \/ \E id \in Ids : GET_student(id)
    \/ \E data \in StudentCreateBodies \cup StudentValidBodies, fault \in BOOLEAN :
           POST_students(data, fault)
    \/ \E id \in Ids, data \in StudentUpdateBodies, fault \in BOOLEAN :
           PUT_student(id, data, fault)
    \/ \E id \in Ids, fault \in BOOLEAN : DELETE_student(id, fault)
    \/ \E page \in Pages, per_page \in PerPages : GET_teachers(page, per_page)
    \/ \E data \in TeacherCreateBodies \cup TeacherPlainBodies, fault \in BOOLEAN :
           POST_teachers(data, fault)
    \/ GET_classes
    \/ \E data \in ClassCreateBodies, fault \in BOOLEAN : POST_classes(data, fault)
    \/ tick

Spec == Init /\ [][Next]_vars

(* The mutating routes, with storage faults *)
NextWrites ==
    \/ \E data \in StudentCreateBodies, fault \in BOOLEAN :
           POST_students(data, fault)
    \/ \E id \in Ids, data \in StudentEmailBodies, fault \in BOOLEAN :
           PUT_student(id, data, fault)
    \/ \E id \in Ids, fault \in BOOLEAN : DELETE_student(id, fault)
    \/ \E data \in TeacherCreateBodies, fault \in BOOLEAN :
           POST_teachers(data, fault)
    \/ \E data \in ClassCreateBodies, fault \in BOOLEAN : POST_classes(data, fault)

SpecWrites == Init /\ [][NextWrites]_vars

(* The routes of one student *)
NextStudents ==
    \/ tick
    \/ \E id \in Ids : GET_student(id)
    \/ \E data \in StudentPlainBodies :
           Cardinality(students) < MaxStudents /\ POST_students(data, FALSE)
    \/ \E id \in Ids, data \in StudentChangeBodies : PUT_student(id, data, FALSE)
    \/ \E id \in Ids : DELETE_student(id, FALSE)

SpecStudents == Init /\ [][NextStudents]_vars

(* The paginated collections *)
NextLists ==
    \/ \E page \in Pages, per_page \in PerPages : GET_students(page, per_page)
    \/ \E page \in Pages, per_page \in PerPages : GET_teachers(page, per_page)
    \/ \E data \in StudentPlainBodies : POST_students(data, FALSE)
    \/ \E id \in Ids : DELETE_student(id, FALSE)
    \/ \E data \in TeacherPlainBodies : POST_teachers(data, FALSE)

SpecLists == Init /\ [][NextLists]_vars

(* Creation against the clock *)
NextCodes ==
    \/ \E data \in StudentPlainBodies, fault \in BOOLEAN : POST_students(data, fault)
    \/ \E data \in TeacherPlainBodies, fault \in BOOLEAN : POST_teachers(data, fault)
    \/ tick

SpecCodes == Init /\ [][NextCodes]_vars

----------------------------------------------------------------------------
(* Properties.  A property of a handler is stated for every reachable state
   and every request of the input sets: the outcome the handler computes there. *)

Absent(data, keys) == \E k \in keys : data[k] = <<>>

\* C1: in every reachable state no two students share a student_id or an
\* email, no two teachers share a teacher_id or an email, and no two classes
\* share a class_name; a POST or PUT that would introduce a duplicate fails.
C1_Uniqueness ==
    /\ \A a, b \in students :
           a # b => a.student_id # b.student_id /\ a.email # b.email
    /\ \A a, b \in teachers :
           a # b => a.teacher_id # b.teacher_id /\ a.email # b.email
    /\ \A a, b \in classes : a # b => a.class_name # b.class_name

\* a PUT that would have given two students one email was refused
C1_Witness ==
    /\ last.op = "update_student"
    /\ last.status = ServerError
    /\ last.body = [error |-> "UNIQUE constraint failed"]
    /\ Cardinality(students) = 2

\* C2: PUT /api/students/{id} on an existing student keeps, for each of
\* first_name, last_name, email, phone and status, the pre-update value of a key
\* the body omits, in the stored record and in the 200 response; a body with
\* none of the keys leaves every serialized field of the student as it was
\* (updated_at is not serialized).
C2_PartialOverwrite ==
    \A old \in students, data \in StudentUpdateBodies :
        LET out == update_student(old.id, data, FALSE)
            now == {s \in out.db.students : s.id = old.id}
        IN  /\ Cardinality(now) = 1
            /\ \A new \in now :
                   /\ \A k \in DOMAIN data :
                          data[k] = <<>> =>
                              /\ new[k] = old[k]
                              /\ out.last.status = OK => out.last.body[k] = old[k]
                   /\ (\A k \in DOMAIN data : data[k] = <<>>) =>
                          StudentToDict(new) = StudentToDict(old)
                   /\ (\A k \in DOMAIN data : data[k] = <<>>) =>
                          /\ out.last.status = OK
                          /\ out.last.body = StudentToDict(old)

\* a 200 answer to a PUT that set first_name and omitted last_name, which the
\* answer and the stored row, stamped at a later clock reading, still carry
C2_Witness ==
    /\ last.op = "update_student"
    /\ last.status = OK
    /\ last.body.first_name = "Bob"
    /\ last.body.last_name = "Lee"
    /\ \E s \in students :
           s.id = last.body.id /\ s.last_name = "Lee" /\ s.updated_at > 1

\* the handler answers 400 and writes nothing
Refused400(out) ==
    /\ out.last.status = BadRequest
    /\ out.last.body = [error |-> "Missing required fields"]
    /\ Cardinality(out.db.students) = Cardinality(students)
    /\ Cardinality(out.db.teachers) = Cardinality(teachers)
    /\ Cardinality(out.db.classes) = Cardinality(classes)
    /\ out.db = DB
    /\ out.pending = pending

Refused404(out) ==
    /\ out.last.status = NotFound
    /\ out.last.body = [error |-> "Student not found"]
    /\ out.db = DB
    /\ out.pending = pending

\* C4: GET, PUT (whatever its body) and DELETE on /api/students/{id} for an
\* id no stored student has return 404 'Student not found' and leave the
\* tables and the session unchanged.
C4_NotFound ==
    \A id \in Ids :
        (\A s \in students : s.id # id) =>
            /\ Refused404(get_student(id))
            /\ \A data \in StudentUpdateBodies, fault \in BOOLEAN :
                   Refused404(update_student(id, data, fault))
            /\ \A fault \in BOOLEAN : Refused404(delete_student(id, fault))

\* a 404 answer while another student is stored
C4_Witness ==
    /\ last.status = NotFound
    /\ last.op \in {"get_student", "update_student", "delete_student"}
    /\ students # {}

\* the handler answers 500 only with the tables as before and an empty session
Reverted(out) ==
    out.last.status = ServerError => out.db = DB /\ out.pending = <<>>

\* C5: when a mutating handler answers 500, the committed tables are the ones
\* from before the request and the session holds no pending change that a
\* later commit could persist.
C5_NoPartialWrite ==
    /\ pending = <<>>
    /\ \A fault \in BOOLEAN :
           /\ \A data \in StudentCreateBodies : Reverted(create_student(data, fault))
           /\ \A id \in Ids, data \in StudentUpdateBodies :
                  Reverted(update_student(id, data, fault))
           /\ \A id \in Ids : Reverted(delete_student(id, fault))
           /\ \A data \in TeacherCreateBodies : Reverted(create_teacher(data, fault))
           /\ \A data \in ClassCreateBodies : Reverted(create_class(data, fault))

\* a PUT wrote the attributes of a stored student and its commit failed
C5_Witness ==
    /\ last.op = "update_student"
    /\ last.status = ServerError
    /\ last.body = [error |-> "NOT NULL constraint failed"]
    /\ students # {}
    /\ pending = <<>>

CreateOp ==
    [students |-> "create_student", teachers |-> "create_teacher",
     classes |-> "create_class"]

\* C6: every successful create returns an id distinct from the id of
\* every entity of that type created earlier.
C6_FreshAmongAllEarlier ==
    [][\A t \in Tables :
          (/\ last'.op = CreateOp[t] /\ last'.status = Created
           /\ DB'[t] # DB[t]) => last'.body.id \notin issued[t]
      ]_vars

\* C7: no reference dangles: a student's class_id, if set, is the id of a
\* stored class, and a class's teacher_id, if set, is the id of a stored teacher.
C7_NoDanglingReference ==
    /\ \A s \in students :
           s.class_id # NoneId => \E c \in classes : c.id = s.class_id
    /\ \A c \in classes :
           c.teacher_id # NoneId => \E t \in teachers : t.id = c.teacher_id

\* the answer of a list handler is 200 with at most per_page items, the full
\* count as total, and no item when the page lies beyond the last one
Listed(items, rows) ==
    LET page == last.args[1]
        per_page == last.args[2]
    IN  page >= 1 =>
            /\ last.status = OK
            /\ Len(last.body[items]) <= per_page
            /\ last.body.total = Cardinality(rows)
            /\ (page - 1) * per_page >= Cardinality(rows) =>
                   last.body[items] = <<>>

\* C8: GET /api/students/ and GET /api/teachers/ with page >= 1 and
\* per_page >= 1 answer 200 with at most per_page items and the full count as
\* total, and with an empty item list when the page lies beyond the last one.
C8_Pagination ==
    /\ last.op = "get_all_students" => Listed("students", students)
    /\ last.op = "get_all_teachers" => Listed("teachers", teachers)

FreshEmail(data, rows) == \A r \in rows : r.email # data.email[1]

\* C9, for bodies whose email no stored record uses and with the
\* storage call itself not failing: a POST with the required fields and no
\* student_id (teacher_id) key succeeds with the code 'STU-' ('TCH-') followed
\* by the timestamp, so that any two such creations store two different codes.
C9_AlwaysGenerated ==
    [][/\ \A data \in StudentPlainBodies :
             (/\ data.student_id = <<>> /\ FreshEmail(data, students)
              /\ POST_students(data, FALSE)) =>
                 /\ last'.status = Created
                 /\ last'.body.student_id = <<"STU-", clock>>
                 /\ Cardinality(students') = Cardinality(students) + 1
       /\ \A data \in TeacherPlainBodies :
             (/\ data.teacher_id = <<>> /\ FreshEmail(data, teachers)
              /\ POST_teachers(data, FALSE)) =>
                 /\ last'.status = Created
                 /\ last'.body.teacher_id = <<"TCH-", clock>>
                 /\ Cardinality(teachers') = Cardinality(teachers) + 1
      ]_vars

\* C10: every stored student's status is one of active, inactive, graduated and
\* every stored teacher's is one of active, inactive, on_leave.
C10_StatusInEnum ==
    /\ \A s \in students : s.status \in {"active", "inactive", "graduated"}
    /\ \A t \in teachers : t.status \in {"active", "inactive", "on_leave"}

====
